---- MODULE Spec2Model ----
(***************************************************************************)
(* zdgps_report.py: extraction and merging of the zDGPS reports of one     *)
(* Julian day.  The state machine is main(): resolve the day, list the 24h *)
(* databases, read the systems from the configuration file (writing one    *)
(* header file per system), let the external tool write one raw report per *)
(* (system, database), merge the raw reports of each system into its final *)
(* report, remove the temporary files.                                     *)
(*                                                                         *)
(* A Python string is a sequence of one-character strings, a file is the   *)
(* sequence of its characters, the working directory is a function from    *)
(* file names to file contents.  The script is Python 2 (the output of a   *)
(* command is a str); an uncaught exception ends main at once, which is    *)
(* pc = "aborted".  ls is taken to print the names in byte order.          *)
(***************************************************************************)
EXTENDS Integers, Sequences, FiniteSets, TLC

\* ---------------------------------------------------------------- bounds
\* SpecList: identifiers in the catalogue printed by orca_prhrep -list
MaxCatalogue == 3
\* SpecConfig: pieces of text the configuration file is made of
MaxConfigPieces == 4
\* SpecMerge: raw report files of the system, and lines over all of them
MaxFiles == 2
MaxTotalLines == 4

\* ------------------------------------------------------- string literals
NL == "\n"
SOURCE_FILES == <<"S", "o", "u", "r", "c", "e", " ", "f", "i", "l", "e", "(", "s", ")">>
TAG_vessel == <<"v", "e", "s", "s", "e", "l">>
TAG_project == <<"p", "r", "o", "j", "e", "c", "t">>
TAG_system == <<"s", "y", "s", "t", "e", "m">>
HDR_STARS == [i \in 1..43 |-> "*"]
HDR_TITLE == <<"*", " ", "z", "D", "G", "P", "S", " ", "R", "e", "p", "o", "r", "t", " ", "f", "o", "r", " ", "P", "G", "S", " ", "o", "f", "f", "i", "c", "e">>
HDR_VESSEL == <<"*", " ", "V", "e", "s", "s", "e", "l", ":", " ">>
HDR_PROJECT == <<"*", " ", "P", "r", "o", "j", "e", "c", "t", ":", " ">>
HDR_SYSTEM == <<"*", " ", "S", "y", "s", "t", "e", "m", ":", " ">>
HDR_EXT == <<".", "h", "d", "r">>
RAW_SUFFIX == <<"_", "R", "A", "W">>
ZDGPS == <<"_", "z", "D", "G", "P", "S", ".">>
CONFIG_FILE == <<"z", "d", "g", "p", "s", "_", "r", "e", "p", "o", "r", "t", ".", "c", "o", "n", "f", "i", "g">>
NO_OPTION == <<"-", "1">>
RM_HDR_PATTERN == <<"*", ".", "h", "d", "r">>
RM_RAW_PATTERN == <<"*", "R", "A", "W", "*">>

\* the clock of the run, and the names used in the inputs
Y2022 == <<"2", "0", "2", "2">>
D006 == <<"0", "0", "6">>
D007 == <<"0", "0", "7">>
H24 == <<"2", "4", "h", "r">>
SYS == <<"S", "Y", "S">>
T0 == <<"0", "0", "0", "0", "0", "0">>
G1 == <<"G", "1">>
VG1 == <<"V", "G", "1">>
Digit(n) == <<"0", "1", "2", "3", "4", "5", "6", "7", "8", "9">>[n + 1]

\* ------------------------------------------------- Python's str and list
StartsWith(s, p) ==
    Len(s) >= Len(p) /\ SubSeq(s, 1, Len(p)) = p

FirstIndex(s, c) ==
    CHOOSE k \in 1..Len(s) : s[k] = c /\ \A j \in 1..(k - 1) : s[j] # c

\* s.split(sep) for a one-character separator
RECURSIVE Split(_, _)
Split(s, sep) ==
    IF \A i \in 1..Len(s) : s[i] # sep
    THEN <<s>>
    ELSE <<SubSeq(s, 1, FirstIndex(s, sep) - 1)>>
         \o Split(SubSeq(s, FirstIndex(s, sep) + 1, Len(s)), sep)

\* s.splitlines(): the line ends are removed, a last line needs none
RECURSIVE SplitLines(_)
SplitLines(s) ==
    IF s = <<>> THEN <<>>
    ELSE IF \A i \in 1..Len(s) : s[i] # NL
    THEN <<s>>
    ELSE <<SubSeq(s, 1, FirstIndex(s, NL) - 1)>>
         \o SplitLines(SubSeq(s, FirstIndex(s, NL) + 1, Len(s)))

\* read_file: the lines of the file, each with its line end
RECURSIVE read_file(_)
read_file(s) ==
    IF s = <<>> THEN <<>>
    ELSE IF \A i \in 1..Len(s) : s[i] # NL
    THEN <<s>>
    ELSE <<SubSeq(s, 1, FirstIndex(s, NL))>>
         \o read_file(SubSeq(s, FirstIndex(s, NL) + 1, Len(s)))

\* write_file: the strings one after the other
RECURSIVE write_file(_)
write_file(list_of_strings) ==
    IF list_of_strings = <<>> THEN <<>>
    ELSE Head(list_of_strings) \o write_file(Tail(list_of_strings))

\* what a command prints for a list of names: one per line
RECURSIVE PrintLines(_)
PrintLines(names) ==
    IF names = <<>> THEN <<>>
    ELSE Head(names) \o <<NL>> \o PrintLines(Tail(names))

\* ------------------------------------------------------------- the shell
\* a shell pattern against a file name: * matches any run of characters
RECURSIVE GlobMatch(_, _)
GlobMatch(p, s) ==
    IF p = <<>> THEN s = <<>>
    ELSE IF Head(p) = "*"
    THEN \E k \in 0..Len(s) : GlobMatch(Tail(p), SubSeq(s, k + 1, Len(s)))
    ELSE s # <<>> /\ Head(s) = Head(p) /\ GlobMatch(Tail(p), Tail(s))

Code(c) ==
    CASE c = "." -> 46 [] c = "0" -> 48 [] c = "1" -> 49 [] c = "2" -> 50
      [] c = "3" -> 51 [] c = "4" -> 52 [] c = "5" -> 53 [] c = "6" -> 54
      [] c = "7" -> 55 [] c = "8" -> 56 [] c = "9" -> 57 [] c = "A" -> 65
      [] c = "D" -> 68 [] c = "G" -> 71 [] c = "P" -> 80 [] c = "R" -> 82
      [] c = "S" -> 83 [] c = "V" -> 86 [] c = "W" -> 87 [] c = "_" -> 95
      [] c = "d" -> 100 [] c = "h" -> 104 [] c = "r" -> 114 [] c = "z" -> 122
      [] OTHER -> 127

\* ls prints the names in byte order
RECURSIVE NameLess(_, _)
NameLess(a, b) ==
    IF a = <<>> THEN b # <<>>
    ELSE IF b = <<>> THEN FALSE
    ELSE IF Head(a) = Head(b) THEN NameLess(Tail(a), Tail(b))
    ELSE Code(Head(a)) < Code(Head(b))

RECURSIVE SortNames(_)
SortNames(names) ==
    IF names = {} THEN <<>>
    ELSE LET first == CHOOSE n \in names : \A m \in names \ {n} : NameLess(n, m)
         IN  <<first>> \o SortNames(names \ {first})

Matching(dir, pattern) ==
    {n \in DOMAIN dir : GlobMatch(pattern, n)}

\* rm -f pattern
Remove(dir, pattern) ==
    [n \in (DOMAIN dir) \ Matching(dir, pattern) |-> dir[n]]

\* a file written: created or truncated, then filled
WriteTo(dir, name, content) ==
    [n \in (DOMAIN dir) \cup {name} |-> IF n = name THEN content ELSE dir[n]]

\* ------------------------------------------------------------ file names
HeaderName(system) == system \o HDR_EXT
\* the tool adds .<year>_<julian day> to the name it is given
RawName(system, db, yr, jd) ==
    system \o db \o RAW_SUFFIX \o <<".">> \o yr \o <<"_">> \o jd
FinalName(system, yr, jd) ==
    system \o ZDGPS \o yr \o <<"_">> \o jd
LsPattern(system, jd) ==
    <<"*">> \o system \o <<"*", "_">> \o jd

VARIABLES
    pc,               \* where main is
    opt_year,         \* options.year
    opt_julian_day,   \* options.julian_day
    year,
    julian_day,
    catalogue,        \* what orca_prhrep -list prints
    fs,               \* the working directory
    cmds,             \* the kinds of external commands run so far
    list_lines,       \* get_prhrep_list: output.splitlines()
    li,               \* get_prhrep_list: the next line
    database_list,
    dbs_available,
    config,           \* get_dgps_systems: read_file(config_file)
    ci,               \* get_dgps_systems: the next line
    dgps_systems,
    sys_i,            \* main: the system of the running loop
    db_i,             \* main: the database of the raw loop
    ls_output,        \* create_final_report: output.splitlines()
    fi,               \* create_final_report: the file of ls_output being read
    cat_lines,
    ri,               \* create_final_report: the next row of cat_lines
    header_lines,
    data_lines,
    source_line,
    files,            \* history: what cat printed for each file of this merge
    classified        \* history: the <<file, row>> pairs classified in this merge

optVars == <<opt_year, opt_julian_day>>
dayVars == <<year, julian_day>>
listVars == <<list_lines, li, database_list>>
cfgVars == <<config, ci>>
loopVars == <<sys_i, db_i>>
mergeVars == <<ls_output, fi, cat_lines, ri, header_lines, data_lines, source_line, files, classified>>
vars == <<pc, optVars, dayVars, catalogue, fs, cmds, listVars, dbs_available, cfgVars, dgps_systems, loopVars, mergeVars>>

\* ----------------------------------------------------- main, lines 67-77
GetYear ==
    /\ pc = "year"
    /\ IF opt_year = NO_OPTION
       THEN year' = Y2022 /\ cmds' = cmds \cup {"date"}
       ELSE year' = opt_year /\ cmds' = cmds
    /\ pc' = "julian"
    /\ UNCHANGED <<optVars, julian_day, catalogue, fs, listVars, dbs_available, cfgVars, dgps_systems, loopVars, mergeVars>>

GetJulianDay ==
    /\ pc = "julian"
    /\ IF opt_julian_day = NO_OPTION
       THEN julian_day' = D006 /\ cmds' = cmds \cup {"date"}
       ELSE julian_day' = opt_julian_day /\ cmds' = cmds
    /\ pc' = "list"
    /\ UNCHANGED <<optVars, year, catalogue, fs, listVars, dbs_available, cfgVars, dgps_systems, loopVars, mergeVars>>

\* ------------------------------------------------------- get_prhrep_list
DayFieldIndex == 2

\* line_array[2] == julian_day, or the IndexError of a short line_array
DayTest3(line, jd) ==
    LET line_array == Split(line, "_")
    IN  IF Len(line_array) <= 3 THEN "IndexError"
        ELSE IF line_array[3 + 1] = jd THEN "equal" ELSE "differs"

DayTest(line, jd) ==
    LET line_array == Split(line, "_")
    IN  IF Len(line_array) <= DayFieldIndex THEN "IndexError"
        ELSE IF line_array[DayFieldIndex + 1] = jd THEN "equal" ELSE "differs"

ListCmd ==
    /\ pc = "list"
    /\ cmds' = cmds \cup {"orca_prhrep -list"}
    /\ list_lines' = SplitLines(catalogue)
    /\ li' = 1
    /\ database_list' = <<>>
    /\ pc' = "list_loop"
    /\ UNCHANGED <<optVars, dayVars, catalogue, fs, dbs_available, cfgVars, dgps_systems, loopVars, mergeVars>>

ListStep ==
    /\ pc = "list_loop"
    /\ li <= Len(list_lines)
    /\ LET test == DayTest(list_lines[li], julian_day)
       IN  /\ pc' = IF test = "IndexError" THEN "aborted" ELSE "list_loop"
           /\ database_list' = IF test = "equal"
                               THEN Append(database_list, list_lines[li])
                               ELSE database_list
           /\ li' = IF test = "IndexError" THEN li ELSE li + 1
    /\ UNCHANGED <<optVars, dayVars, catalogue, fs, cmds, list_lines, dbs_available, cfgVars, dgps_systems, loopVars, mergeVars>>

ListReturn ==
    /\ pc = "list_loop"
    /\ li > Len(list_lines)
    /\ dbs_available' = database_list
    /\ pc' = "systems"
    /\ UNCHANGED <<optVars, dayVars, catalogue, fs, cmds, listVars, cfgVars, dgps_systems, loopVars, mergeVars>>

\* ------------------------------------- get_dgps_systems and create_header
\* the vessel and project lines of create_header, or the IndexError of a
\* vessel or project record without a second field
RECURSIVE HeaderRecordsUntilSystem(_)
HeaderRecordsUntilSystem(cfg) ==
    IF cfg = <<>> \/ Split(Head(cfg), ",")[1] = TAG_system
    THEN [raised |-> FALSE, lines |-> <<>>]
    ELSE LET parameters == Split(Head(cfg), ",")
             rest == HeaderRecordsUntilSystem(Tail(cfg))
         IN  IF parameters[1] \in {TAG_vessel, TAG_project} /\ Len(parameters) < 2
             THEN [raised |-> TRUE, lines |-> <<>>]
             ELSE IF parameters[1] = TAG_vessel
             THEN [rest EXCEPT !.lines = <<HDR_VESSEL \o parameters[2] \o <<NL>>>> \o @]
             ELSE IF parameters[1] = TAG_project
             THEN [rest EXCEPT !.lines = <<HDR_PROJECT \o parameters[2] \o <<NL>>>> \o @]
             ELSE rest

RECURSIVE HeaderRecords(_)
HeaderRecords(cfg) ==
    IF cfg = <<>>
    THEN [raised |-> FALSE, lines |-> <<>>]
    ELSE LET parameters == Split(Head(cfg), ",")
             rest == HeaderRecords(Tail(cfg))
         IN  IF parameters[1] \in {TAG_vessel, TAG_project} /\ Len(parameters) < 2
             THEN [raised |-> TRUE, lines |-> <<>>]
             ELSE IF parameters[1] = TAG_vessel
             THEN [rest EXCEPT !.lines = <<HDR_VESSEL \o parameters[2] \o <<NL>>>> \o @]
             ELSE IF parameters[1] = TAG_project
             THEN [rest EXCEPT !.lines = <<HDR_PROJECT \o parameters[2] \o <<NL>>>> \o @]
             ELSE rest

\* create_header: the header_lines handed to write_file
create_header(cfg, system) ==
    LET records == HeaderRecords(cfg)
    IN  [raised |-> records.raised,
         lines |-> <<HDR_STARS \o <<NL>>, HDR_TITLE \o <<NL>>>>
                   \o records.lines
                   \o <<HDR_SYSTEM \o system \o <<NL>>, HDR_STARS \o <<NL>>>>]

SystemsRead ==
    /\ pc = "systems"
    /\ IF CONFIG_FILE \in DOMAIN fs
       THEN /\ config' = read_file(fs[CONFIG_FILE])
            /\ ci' = 1
            /\ dgps_systems' = <<>>
            /\ pc' = "systems_loop"
       ELSE /\ pc' = "aborted"
            /\ UNCHANGED <<cfgVars, dgps_systems>>
    /\ UNCHANGED <<optVars, dayVars, catalogue, fs, cmds, listVars, dbs_available, loopVars, mergeVars>>

SystemsStep ==
    /\ pc = "systems_loop"
    /\ ci <= Len(config)
    /\ LET line == config[ci]
           parameters == Split(line, ",")
       IN  IF line # <<>> /\ parameters[1] = TAG_system
           THEN IF Len(parameters) < 2
                THEN pc' = "aborted" /\ UNCHANGED <<fs, ci, dgps_systems>>
                ELSE LET hdr == create_header(read_file(fs[CONFIG_FILE]), parameters[2])
                     IN  /\ dgps_systems' = Append(dgps_systems, parameters[2])
                         /\ IF hdr.raised
                            THEN pc' = "aborted" /\ UNCHANGED <<fs, ci>>
                            ELSE /\ fs' = WriteTo(fs, HeaderName(parameters[2]), write_file(hdr.lines))
                                 /\ ci' = ci + 1
                                 /\ pc' = "systems_loop"
           ELSE ci' = ci + 1 /\ UNCHANGED <<pc, fs, dgps_systems>>
    /\ UNCHANGED <<optVars, dayVars, catalogue, cmds, listVars, dbs_available, config, loopVars, mergeVars>>

SystemsReturn ==
    /\ pc = "systems_loop"
    /\ ci > Len(config)
    /\ pc' = "raw_loop"
    /\ sys_i' = 1
    /\ db_i' = 1
    /\ UNCHANGED <<optVars, dayVars, catalogue, fs, cmds, listVars, dbs_available, cfgVars, dgps_systems, mergeVars>>

\* ------------------------------------------------ create_raw_orca_prhrep
\* what the tool may write as a raw report
RAW_GOOD == <<"*", "h", NL, "S", ",", "a", NL, "r", "1", NL, "r", "2", NL, "x", NL>>
RAW_NO_COMMA == <<"S", "a", NL, "r", "1", NL, "x", NL>>
RawContents == {RAW_GOOD, RAW_NO_COMMA}

\* one call of create_raw_orca_prhrep: the tool writes the raw report or fails
RawStep ==
    /\ pc = "raw_loop"
    /\ sys_i <= Len(dgps_systems)
    /\ db_i <= Len(dbs_available)
    /\ cmds' = cmds \cup {"orca_prhrep -rep"}
    /\ \/ \E content \in RawContents :
             fs' = WriteTo(fs, RawName(dgps_systems[sys_i], dbs_available[db_i], year, julian_day), content)
       \/ fs' = fs
    /\ IF db_i < Len(dbs_available)
       THEN db_i' = db_i + 1 /\ sys_i' = sys_i
       ELSE db_i' = 1 /\ sys_i' = sys_i + 1
    /\ UNCHANGED <<pc, optVars, dayVars, catalogue, listVars, dbs_available, cfgVars, dgps_systems, mergeVars>>

RawDone ==
    /\ pc = "raw_loop"
    /\ sys_i > Len(dgps_systems) \/ Len(dbs_available) = 0
    /\ pc' = "final_ls"
    /\ sys_i' = 1
    /\ UNCHANGED <<optVars, dayVars, catalogue, fs, cmds, listVars, dbs_available, cfgVars, dgps_systems, db_i, mergeVars>>

\* --------------------------------------------------- create_final_report
\* header_lines[:] = []
ResetHeaderLinesKept(lines) == lines

ResetHeaderLines(lines) == <<>>

\* cat_lines[:-1]
DropLastNone(lines) == lines

DropLast(lines) == SubSeq(lines, 1, Len(lines) - 1)

\* one row through the if/elif chain; acc holds header_lines, data_lines,
\* source_line and whether row.split(',')[1] raised IndexError
ClassifyRowNoQuote(acc, row) ==
    IF StartsWith(row, <<"*">>) \/ StartsWith(row, <<"D">>)
    THEN [acc EXCEPT !.header_lines = Append(@, row \o <<NL>>)]
    ELSE IF StartsWith(row, <<"S">>)
    THEN LET source_row_array == Split(row, ",")
         IN  IF Len(source_row_array) < 2
             THEN [acc EXCEPT !.raised = TRUE]
             ELSE [acc EXCEPT !.source_line = @ \o <<",">> \o source_row_array[2],
                              !.header_lines = Append(@, acc.source_line \o <<",">> \o source_row_array[2] \o <<NL>>)]
    ELSE [acc EXCEPT !.data_lines = Append(@, row \o <<NL>>)]

ClassifyRow(acc, row) ==
    IF StartsWith(row, <<"*">>)
    THEN [acc EXCEPT !.header_lines = Append(@, row \o <<NL>>)]
    ELSE IF StartsWith(row, <<"D">>)
    THEN [acc EXCEPT !.header_lines = Append(@, row \o <<NL>>)]
    ELSE IF StartsWith(row, <<"S">>)
    THEN LET source_row_array == Split(row, ",")
         IN  IF Len(source_row_array) < 2
             THEN [acc EXCEPT !.raised = TRUE]
             ELSE [acc EXCEPT !.source_line = @ \o <<",">> \o source_row_array[2],
                              !.header_lines = Append(@, acc.source_line \o <<",">> \o source_row_array[2] \o <<NL>>)]
    ELSE IF StartsWith(row, <<"\"">>)
    THEN [acc EXCEPT !.header_lines = Append(@, row \o <<NL>>)]
    ELSE [acc EXCEPT !.data_lines = Append(@, row \o <<NL>>)]

\* lines 173-180: the accumulators and the ls of the system's files
FinalLs ==
    /\ pc = "final_ls"
    /\ sys_i <= Len(dgps_systems)
    /\ header_lines' = <<>>
    /\ data_lines' = <<>>
    /\ source_line' = SOURCE_FILES
    /\ cmds' = cmds \cup {"ls"}
    /\ ls_output' = SplitLines(PrintLines(SortNames(Matching(fs, LsPattern(dgps_systems[sys_i], julian_day)))))
    /\ fi' = 0
    /\ files' = <<>>
    /\ classified' = <<>>
    /\ pc' = "final_files"
    /\ UNCHANGED <<optVars, dayVars, catalogue, fs, listVars, dbs_available, cfgVars, dgps_systems, loopVars, cat_lines, ri>>

\* the loop over the rows of a file is through, or no file was begun yet
RowsDone ==
    pc = "final_files" \/ (pc = "final_rows" /\ ri > Len(cat_lines))

\* lines 181-190: the next file is begun and emptied of its last line
FinalCat ==
    /\ RowsDone
    /\ fi < Len(ls_output)
    /\ fi' = fi + 1
    /\ header_lines' = ResetHeaderLines(header_lines)
    /\ cmds' = cmds \cup {"cat"}
    /\ LET cat_output == IF ls_output[fi + 1] \in DOMAIN fs THEN fs[ls_output[fi + 1]] ELSE <<>>
       IN  /\ cat_lines' = DropLast(SplitLines(cat_output))
           /\ files' = Append(files, cat_output)
    /\ ri' = 1
    /\ pc' = "final_rows"
    /\ UNCHANGED <<optVars, dayVars, catalogue, fs, listVars, dbs_available, cfgVars, dgps_systems, loopVars, ls_output, data_lines, source_line, classified>>

\* lines 191-204: one row
FinalRow ==
    /\ pc = "final_rows"
    /\ ri <= Len(cat_lines)
    /\ LET acc == ClassifyRow([header_lines |-> header_lines, data_lines |-> data_lines,
                               source_line |-> source_line, raised |-> FALSE], cat_lines[ri])
       IN  /\ header_lines' = acc.header_lines
           /\ data_lines' = acc.data_lines
           /\ source_line' = acc.source_line
           /\ pc' = IF acc.raised THEN "aborted" ELSE "final_rows"
           /\ ri' = IF acc.raised THEN ri ELSE ri + 1
    /\ classified' = Append(classified, <<fi, ri>>)
    /\ UNCHANGED <<optVars, dayVars, catalogue, fs, cmds, listVars, dbs_available, cfgVars, dgps_systems, loopVars, ls_output, fi, cat_lines, files>>

\* lines 207-209: the final report is written, or open() fails
FinalWrite ==
    /\ RowsDone
    /\ fi = Len(ls_output)
    /\ \/ /\ fs' = WriteTo(fs, FinalName(dgps_systems[sys_i], year, julian_day),
                           write_file(header_lines \o data_lines))
          /\ sys_i' = sys_i + 1
          /\ pc' = "final_ls"
       \/ /\ pc' = "aborted"
          /\ UNCHANGED <<fs, sys_i>>
    /\ UNCHANGED <<optVars, dayVars, catalogue, cmds, listVars, dbs_available, cfgVars, dgps_systems, db_i, mergeVars>>

FinalDone ==
    /\ pc = "final_ls"
    /\ sys_i > Len(dgps_systems)
    /\ pc' = "rm_hdr"
    /\ UNCHANGED <<optVars, dayVars, catalogue, fs, cmds, listVars, dbs_available, cfgVars, dgps_systems, loopVars, mergeVars>>

\* -------------------------------------------- remove_headers, remove_RAW
remove_headers ==
    /\ pc = "rm_hdr"
    /\ cmds' = cmds \cup {"rm"}
    /\ fs' = Remove(fs, RM_HDR_PATTERN)
    /\ pc' = "rm_raw"
    /\ UNCHANGED <<optVars, dayVars, catalogue, listVars, dbs_available, cfgVars, dgps_systems, loopVars, mergeVars>>

remove_RAW ==
    /\ pc = "rm_raw"
    /\ cmds' = cmds \cup {"rm"}
    /\ fs' = Remove(fs, RM_RAW_PATTERN)
    /\ pc' = "done"
    /\ UNCHANGED <<optVars, dayVars, catalogue, listVars, dbs_available, cfgVars, dgps_systems, loopVars, mergeVars>>

\* ---------------------------------------------------------------- inputs
RECURSIVE JoinWith(_, _)
JoinWith(fields, sep) ==
    IF Len(fields) <= 1 THEN (IF fields = <<>> THEN <<>> ELSE fields[1])
    ELSE fields[1] \o <<sep>> \o JoinWith(Tail(fields), sep)

BoundedSeqs(S, n) == UNION {[1..k -> S] : k \in 0..n}

NoFiles == [n \in {} |-> <<>>]

\* identifiers of 24h databases, as orca_prhrep -list may print them
DB_006 == JoinWith(<<H24, Y2022, D006, T0>>, "_")
DB_006_NOON == JoinWith(<<H24, Y2022, D006, <<"1", "2", "0", "0", "0", "0">>>>, "_")
DB_007 == JoinWith(<<H24, Y2022, D007, T0>>, "_")
SYS_006 == JoinWith(<<SYS, H24, Y2022, D006, T0>>, "_")
SYS_007 == JoinWith(<<SYS, H24, Y2022, D007, T0>>, "_")
DB_SHORT == JoinWith(<<H24, Y2022>>, "_")
DB_ODD == JoinWith(<<D006, H24, D007>>, "_")
ListIdents == {DB_006, DB_007, SYS_006, SYS_007, DB_SHORT, DB_ODD}

\* the text of a configuration file: its pieces, numbered by their place
PieceKinds == {"vessel", "project", "system", "blank", "bare"}
Piece(kind, i) ==
    CASE kind = "vessel" -> TAG_vessel \o <<",", "v", Digit(i), ",", NL>>
      [] kind = "project" -> TAG_project \o <<",", "p", Digit(i), NL>>
      [] kind = "system" -> TAG_system \o <<",", "G", Digit(i), ",", NL>>
      [] kind = "blank" -> <<NL>>
      [] kind = "bare" -> TAG_vessel

RECURSIVE ConfigTextFrom(_, _)
ConfigTextFrom(kinds, i) ==
    IF i > Len(kinds) THEN <<>>
    ELSE Piece(kinds[i], i) \o ConfigTextFrom(kinds, i + 1)

ConfigText(kinds) == ConfigTextFrom(kinds, 1)

\* the lines of a raw report: its kind, then the file and the row it is in
LineKinds == {"star", "D", "quote", "S", "S_no_comma", "data"}
Line(kind, f, r) ==
    CASE kind = "star" -> <<"*", Digit(f), Digit(r)>>
      [] kind = "D" -> <<"D", Digit(f), Digit(r)>>
      [] kind = "quote" -> <<"\"", Digit(f), Digit(r)>>
      [] kind = "S" -> <<"S", ",", Digit(f), Digit(r), ",", "x">>
      [] kind = "S_no_comma" -> <<"S", Digit(f), Digit(r)>>
      [] kind = "data" -> <<Digit(f), Digit(r)>>

RECURSIVE SumTo(_, _)
SumTo(lens, n) == IF n = 0 THEN 0 ELSE lens[n] + SumTo(lens, n - 1)

RECURSIVE RawTextFrom(_, _, _, _)
RawTextFrom(kinds, lens, f, r) ==
    IF r > lens[f] THEN <<>>
    ELSE Line(kinds[SumTo(lens, f - 1) + r], f, r) \o <<NL>> \o RawTextFrom(kinds, lens, f, r + 1)

MergeDb(f) == JoinWith(<<H24, Y2022, D006, <<Digit(f)>>>>, "_")

MergeDir(kinds, lens) ==
    LET name(f) == RawName(G1, MergeDb(f), Y2022, D006)
    IN  [n \in {name(f) : f \in DOMAIN lens} |->
            LET f == CHOOSE g \in DOMAIN lens : name(g) = n
            IN  RawTextFrom(kinds, lens, f, 1)]

\* the working directories main starts in: the configuration file, or none
CONFIG_TWO == TAG_vessel \o <<",", "V", ",", NL>> \o TAG_system \o <<",">> \o VG1 \o <<",", NL>>
              \o TAG_system \o <<",">> \o G1 \o <<",", NL>>
CONFIG_TWICE == TAG_system \o <<",">> \o G1 \o <<",", NL>> \o TAG_system \o <<",">> \o G1 \o <<",", NL>>
MainDirs == {NoFiles, CONFIG_FILE :> CONFIG_TWO, CONFIG_FILE :> CONFIG_TWICE}
MainCatalogues == {PrintLines(<<DB_006, DB_007>>), PrintLines(<<DB_006, DB_006_NOON>>),
                   PrintLines(<<DB_SHORT>>), PrintLines(<<>>)}

\* -------------------------------------------------------- specifications
Idle ==
    /\ list_lines = <<>> /\ li = 1 /\ database_list = <<>>
    /\ config = <<>> /\ ci = 1
    /\ db_i = 1
    /\ ls_output = <<>> /\ fi = 0 /\ cat_lines = <<>> /\ ri = 1
    /\ header_lines = <<>> /\ data_lines = <<>> /\ source_line = <<>>
    /\ files = <<>> /\ classified = <<>>
    /\ cmds = {}

\* main from its first line
Init ==
    /\ pc = "year"
    /\ opt_year \in {NO_OPTION, Y2022}
    /\ opt_julian_day \in {NO_OPTION, D006}
    /\ year = <<>> /\ julian_day = <<>>
    /\ catalogue \in MainCatalogues
    /\ fs \in MainDirs
    /\ dbs_available = <<>> /\ dgps_systems = <<>> /\ sys_i = 1
    /\ Idle

Next ==
    \/ GetYear \/ GetJulianDay
    \/ ListCmd \/ ListStep \/ ListReturn
    \/ SystemsRead \/ SystemsStep \/ SystemsReturn
    \/ RawStep \/ RawDone
    \/ FinalLs \/ FinalCat \/ FinalRow \/ FinalWrite \/ FinalDone
    \/ remove_headers \/ remove_RAW

Spec == Init /\ [][Next]_vars

\* get_prhrep_list on every catalogue of at most MaxCatalogue identifiers
InitList ==
    /\ pc = "list"
    /\ opt_year = Y2022 /\ year = Y2022
    /\ \E jd \in {D006, D007} : opt_julian_day = jd /\ julian_day = jd
    /\ \E ids \in BoundedSeqs(ListIdents, MaxCatalogue) : catalogue = PrintLines(ids)
    /\ fs = NoFiles
    /\ dbs_available = <<>> /\ dgps_systems = <<>> /\ sys_i = 1
    /\ Idle

NextList == ListCmd \/ ListStep \/ ListReturn

SpecList == InitList /\ [][NextList]_vars

\* get_dgps_systems on every configuration file of at most MaxConfigPieces pieces
InitConfig ==
    /\ pc = "systems"
    /\ opt_year = Y2022 /\ year = Y2022
    /\ opt_julian_day = D006 /\ julian_day = D006
    /\ catalogue = <<>>
    /\ \/ fs = NoFiles
       \/ \E kinds \in BoundedSeqs(PieceKinds, MaxConfigPieces) : fs = (CONFIG_FILE :> ConfigText(kinds))
    /\ dbs_available = <<>> /\ dgps_systems = <<>> /\ sys_i = 1
    /\ Idle

NextConfig == SystemsRead \/ SystemsStep \/ SystemsReturn

SpecConfig == InitConfig /\ [][NextConfig]_vars

\* create_final_report of system G1 on at most MaxFiles raw reports of at most
\* MaxTotalLines lines in all
InitMerge ==
    /\ pc = "final_ls"
    /\ opt_year = Y2022 /\ year = Y2022
    /\ opt_julian_day = D006 /\ julian_day = D006
    /\ catalogue = <<>>
    /\ \E nf \in 0..MaxFiles :
         \E lens \in [1..nf -> 0..MaxTotalLines] :
            /\ SumTo(lens, nf) <= MaxTotalLines
            /\ \E kinds \in [1..SumTo(lens, nf) -> LineKinds] :
                  /\ fs = MergeDir(kinds, lens)
                  /\ dbs_available = [f \in 1..nf |-> MergeDb(f)]
    /\ dgps_systems = <<G1>> /\ sys_i = 1
    /\ Idle

NextMerge == FinalLs \/ FinalCat \/ FinalRow \/ FinalWrite

SpecMerge == InitMerge /\ [][NextMerge]_vars

\* ------------------------------------------------------------ properties
Underscores(s) == {i \in 1..Len(s) : s[i] = "_"}

\* the text between the second underscore of s and the third, or the end of s
AfterTwoUnderscores(s) ==
    LET second == CHOOSE b \in Underscores(s) : Cardinality({a \in Underscores(s) : a < b}) = 1
        later == {c \in Underscores(s) : c > second}
        stop == IF later = {} THEN Len(s) + 1
                ELSE CHOOSE c \in later : \A d \in later : c <= d
    IN  SubSeq(s, second + 1, stop - 1)

ThirdFieldIs(s, jd) ==
    Cardinality(Underscores(s)) >= 2 /\ AfterTwoUnderscores(s) = jd

ListReturned == pc = "systems"

\* C3, as the claim states it: for the catalogue SYS_24hr_2022_006_000000,
\* SYS_24hr_2022_007_000000 and the day 006, get_prhrep_list returns exactly
\* the first identifier.
C3_Original ==
    (ListReturned /\ list_lines = <<SYS_006, SYS_007>> /\ julian_day = D006)
        => dbs_available = <<SYS_006>>

\* C3, amended: get_prhrep_list returns, in catalogue order, exactly the
\* identifiers whose third underscore-separated field equals the day, and
\* raises at the first identifier of fewer than three fields; so it returns
\* nothing for SYS_24hr_2022_006_000000, SYS_24hr_2022_007_000000 and the day
\* 006 (their third field is the year), and the first identifier for
\* 24hr_2022_006_000000, 24hr_2022_007_000000.
C3_ThirdField ==
    LET wanted(id) == ThirdFieldIs(id, julian_day)
    IN  /\ ListReturned =>
              /\ dbs_available = SelectSeq(list_lines, wanted)
              /\ \A i \in 1..Len(list_lines) : Cardinality(Underscores(list_lines[i])) >= 2
        /\ pc = "aborted" =>
              /\ li \in 1..Len(list_lines)
              /\ Cardinality(Underscores(list_lines[li])) < 2
              /\ \A i \in 1..(li - 1) : Cardinality(Underscores(list_lines[i])) >= 2
        /\ (ListReturned /\ list_lines = <<SYS_006, SYS_007>> /\ julian_day = D006)
              => dbs_available = <<>>
        /\ (ListReturned /\ list_lines = <<DB_006, DB_007>> /\ julian_day = D006)
              => dbs_available = <<DB_006>>

C3_Witness ==
    /\ ListReturned
    /\ list_lines = <<SYS_006, DB_006, DB_007>>
    /\ julian_day = D006
    /\ dbs_available = <<DB_006>>

\* the vessel and project lines a header file holds
IsAttributeLine(l) == StartsWith(l, HDR_VESSEL) \/ StartsWith(l, HDR_PROJECT)

AttributeLines(text) == SelectSeq(SplitLines(text), IsAttributeLine)

Commas(s) == {i \in 1..Len(s) : s[i] = ","}

\* the text between the first comma of s and the second, or the end of s
AfterFirstComma(s) ==
    LET first == CHOOSE a \in Commas(s) : \A b \in Commas(s) : a <= b
        later == Commas(s) \ {first}
        stop == IF later = {} THEN Len(s) + 1
                ELSE CHOOSE c \in later : \A d \in later : c <= d
    IN  SubSeq(s, first + 1, stop - 1)

\* the header lines of the vessel and project records of a configuration text
RECURSIVE RecordLines(_)
RecordLines(ls) ==
    IF ls = <<>> THEN <<>>
    ELSE (IF StartsWith(Head(ls), TAG_vessel \o <<",">>)
          THEN <<HDR_VESSEL \o AfterFirstComma(Head(ls))>>
          ELSE IF StartsWith(Head(ls), TAG_project \o <<",">>)
          THEN <<HDR_PROJECT \o AfterFirstComma(Head(ls))>>
          ELSE <<>>)
         \o RecordLines(Tail(ls))

\* C10: the header file of every system holds one vessel line for every vessel
\* record and one project line for every project record of the whole
\* configuration file, in file order, wherever the system record is.
C10_GlobalAttributes ==
    \A k \in 1..Len(dgps_systems) :
        HeaderName(dgps_systems[k]) \in DOMAIN fs =>
            AttributeLines(fs[HeaderName(dgps_systems[k])])
                = RecordLines(SplitLines(fs[CONFIG_FILE]))

C10_Witness ==
    /\ pc = "raw_loop"
    /\ Len(dgps_systems) = 2
    /\ \A k \in 1..2 : HeaderName(dgps_systems[k]) \in DOMAIN fs
    /\ Len(config) = 4
    /\ StartsWith(config[1], TAG_system)
    /\ StartsWith(config[2], TAG_vessel \o <<",">>)
    /\ StartsWith(config[3], TAG_system)
    /\ StartsWith(config[4], TAG_project \o <<",">>)

\* --- the merge of create_final_report, against the files cat printed
\* a merge has ended with its final report written
MergeWritten == pc = "final_ls" /\ sys_i > 1

\* the lines of the final report last written
Output == SplitLines(fs[FinalName(dgps_systems[sys_i - 1], year, julian_day)])

InputLines(f) == SplitLines(files[f])

\* the lines of file f but its last
NonLast(f) == [r \in 1..(Len(InputLines(f)) - 1) |-> InputLines(f)[r]]

IsPlainHeader(l) == l # <<>> /\ l[1] \in {"*", "D", "\""}

IsSourceRow(l) == l # <<>> /\ l[1] = "S"

IsData(l) == l = <<>> \/ l[1] \notin {"*", "D", "S", "\""}

RECURSIVE DataUpTo(_)
DataUpTo(f) ==
    IF f = 0 THEN <<>> ELSE DataUpTo(f - 1) \o SelectSeq(NonLast(f), IsData)

RECURSIVE PlainHeaderUpTo(_)
PlainHeaderUpTo(f) ==
    IF f = 0 THEN <<>> ELSE PlainHeaderUpTo(f - 1) \o SelectSeq(NonLast(f), IsPlainHeader)

RECURSIVE SourceRowsUpTo(_)
SourceRowsUpTo(f) ==
    IF f = 0 THEN <<>> ELSE SourceRowsUpTo(f - 1) \o SelectSeq(NonLast(f), IsSourceRow)

RECURSIVE SourceList(_)
SourceList(rows) ==
    IF rows = <<>> THEN <<>>
    ELSE <<",">> \o AfterFirstComma(Head(rows)) \o SourceList(Tail(rows))

IsSourceLine(l) == StartsWith(l, SOURCE_FILES)

\* C1, as the claim states it: whatever the number of S-lines in each file, the
\* final report holds exactly one line starting with Source file(s), and it
\* lists the second field of every S-line, in file-processing order.  (Stated
\* for the merges that classified at least one S-line.)
C1_Original ==
    (MergeWritten /\ SourceRowsUpTo(Len(files)) # <<>>) =>
        /\ Len(SelectSeq(Output, IsSourceLine)) = 1
        /\ SelectSeq(Output, IsSourceLine)[1] = SOURCE_FILES \o SourceList(SourceRowsUpTo(Len(files)))

\* C2, as the claim states it: every non-last line starting with *, D or " of
\* every file is in the header of the final report, in file and line order.
C2_Original ==
    MergeWritten => SelectSeq(Output, IsPlainHeader) = PlainHeaderUpTo(Len(files))

\* C2, amended: the lines of the final report starting with *, D or " are
\* exactly the non-last lines starting with *, D or " of the file processed
\* last, verbatim and in line order; those of the files processed before it
\* are discarded when the next file is begun.
C2_LastFileHeader ==
    MergeWritten =>
        SelectSeq(Output, IsPlainHeader)
            = IF files = <<>> THEN <<>> ELSE SelectSeq(NonLast(Len(files)), IsPlainHeader)

C2_Witness ==
    /\ MergeWritten
    /\ Len(files) = 2
    /\ SelectSeq(NonLast(1), IsPlainHeader) # <<>>
    /\ SelectSeq(NonLast(2), IsPlainHeader) # <<>>
    /\ SelectSeq(Output, IsPlainHeader) # <<>>

\* the name a raw report line carries: its file and its row
Carries(l, f, r) ==
    \E i \in 1..(Len(l) - 1) : l[i] = Digit(f) /\ l[i + 1] = Digit(r)

\* create_final_report is through with file f of the merge
FileDone(f) == f < fi \/ (f = fi /\ ri > Len(cat_lines))

\* C5: of a file of N >= 1 lines exactly the first N-1 are classified, in
\* order, and never the last, whatever it starts with; a file of one line adds
\* nothing to the header lines, the source line or the data lines.  (A file
\* counts once create_final_report is through with it.)
C5_LastLineDropped ==
    /\ \A k \in 1..Len(classified) :
          classified[k][2] < Len(InputLines(classified[k][1]))
    /\ \A f \in 1..Len(files) :
          FileDone(f) =>
             LET of_f(e) == e[1] = f
             IN  SelectSeq(classified, of_f) = [r \in 1..(Len(InputLines(f)) - 1) |-> <<f, r>>]
    /\ \A f \in 1..Len(files) :
          Len(InputLines(f)) = 1 =>
             /\ \A i \in 1..Len(header_lines) : ~Carries(header_lines[i], f, 1)
             /\ \A i \in 1..Len(data_lines) : ~Carries(data_lines[i], f, 1)
             /\ ~Carries(source_line, f, 1)

C5_Witness ==
    /\ MergeWritten
    /\ Len(files) = 2
    /\ Len(InputLines(1)) = 1
    /\ IsSourceRow(InputLines(1)[1])
    /\ Len(InputLines(2)) = 3
    /\ IsPlainHeader(InputLines(2)[3])
    /\ Len(classified) = 2

\* C6: the data part of the final report is the data lines of the files, the
\* non-last lines starting with none of * D S ", file after file and in line
\* order, none lost, doubled or moved, and it follows every header line.
C6_DataPart ==
    MergeWritten =>
        \E k \in 0..Len(Output) :
            /\ SubSeq(Output, k + 1, Len(Output)) = DataUpTo(Len(files))
            /\ \A j \in 1..k : ~IsData(Output[j])

C6_Witness ==
    /\ MergeWritten
    /\ Len(files) = 2
    /\ SelectSeq(NonLast(1), IsData) # <<>>
    /\ SelectSeq(NonLast(2), IsData) # <<>>
    /\ Len(Output) = 2

\* --- main
\* the final report of the system main is merging
ThisFinal == FinalName(dgps_systems[sys_i], year, julian_day)

\* C4, as the claim states it: a second create_final_report of the same system,
\* right after the first and with the raw reports as they were, leaves the
\* final report as the first call wrote it.
C4_Original ==
    [][(/\ RowsDone
        /\ pc' = "final_ls"
        /\ sys_i > 1
        /\ dgps_systems[sys_i] = dgps_systems[sys_i - 1]
        /\ ThisFinal \in DOMAIN fs)
       => fs'[ThisFinal] = fs[ThisFinal]]_vars

\* C7, as the claim states it: a run that finds no configuration file has
\* started no external command when it aborts.
C7_Original ==
    (pc = "aborted" /\ CONFIG_FILE \notin DOMAIN fs) => cmds = {}

\* C8, as the claim states it: however the run ends, no header file and no raw
\* report is left in the working directory.
C8_Original ==
    pc \in {"done", "aborted"} =>
        Matching(fs, RM_HDR_PATTERN) \cup Matching(fs, RM_RAW_PATTERN) = {}

\* C9, as the claim states it: the files create_final_report merges are the
\* raw reports generated for its system and the day's databases, and no other
\* file.  (Stated for the runs whose configuration names no system twice.)
C9_Original ==
    (/\ pc \in {"final_files", "final_rows"}
     /\ \A a, b \in 1..Len(dgps_systems) : dgps_systems[a] = dgps_systems[b] => a = b)
    =>
        {ls_output[i] : i \in 1..Len(ls_output)}
            = {RawName(dgps_systems[sys_i], dbs_available[d], year, julian_day) :
                  d \in 1..Len(dbs_available)} \cap DOMAIN fs

====
